---- MODULE Spec2Model ----
(***************************************************************************)
(* Model of tg-planner (src/main.py): a task store with categories, the    *)
(* lazy expiration sweep, the request handlers and the statistics view.    *)
(*                                                                         *)
(* Dates are day numbers.  Every call of datetime.date.today() reads the   *)
(* host clock; the clock may pass midnight between two reads made by the   *)
(* same handler, so a handler that reads the clock twice takes the second  *)
(* value from {clock, clock + 1}.                                          *)
(*                                                                         *)
(* Spec runs the handlers in any order from an empty database.             *)
(* SpecRequest runs one request on every small store the program can be    *)
(* in, and SpecStats one statistics request on stores whose tasks lie on   *)
(* both sides of the week and month windows.  SpecFair is Spec with read   *)
(* requests that keep arriving.  SpecConc interleaves the statements of    *)
(* two requests, each with its own database session.                       *)
(***************************************************************************)
EXTENDS Integers, FiniteSets, Sequences, TLC

\* ------------------------------------------------------------------ bounds
MaxDay   == 1      \* last day the clock reaches in Spec
MaxTasks == 2      \* largest task id (Spec, SpecRequest)
MaxCats  == 2      \* largest category id
StatsMaxTasks == 3 \* largest number of task rows SpecStats starts from

\* ------------------------------------------------------- program constants
WeekDays  == 7     \* timedelta(days=7)
MonthDays == 30    \* timedelta(days=30)

RESET_PASSWORD == "1234"
DefaultCategoryName == "Obshchee"   \* Category(name="Общее")
AllCategoriesLabel  == "Vse bloki"  \* selected_cat_name = "Все блоки"

\* ------------------------------------------------------------ input sets
Titles      == {"t"}
Names       == {DefaultCategoryName, "work"}
Passwords   == {RESET_PASSWORD, "0000"}
Periods     == {"week", "month", "all", "year"}
CatFilters  == {"all", "1", "02", "x"}
CategoryIds == 1..MaxCats
TaskIds     == 1..(MaxTasks + 1)
Statuses    == {"pending", "completed", "expired"}

NoDay == 0 - 1

VARIABLES
  clock,        \* the host's current day (datetime.date.today())
  horizon,      \* the last day a run follows the clock to
  fk_enforced,  \* TRUE: the store rejects a dangling tasks.category_id
                \* (PostgreSQL via DATABASE_URL); FALSE: the SQLite default
  categories,   \* table categories: id -> name
  tasks,        \* table tasks: id -> [title, date, status, category_id]
  last,         \* the last request: its inputs, locals and response
  viewed,       \* TRUE once a main-view request has been served
  sessions      \* the requests in progress of a run that interleaves their
                \* steps: name -> [op, pc, id, today, loaded, rows, outcome]

vars == <<clock, horizon, fk_enforced, categories, tasks, last, viewed,
          sessions>>

\* No request is in progress: every handler of Next runs as one step.
NoSessions == [r \in {} |-> 0]

\* ------------------------------------------------------------------ store
EmptyTable == [i \in {} |-> 0]

Max(S) == IF S = {} THEN 0 ELSE CHOOSE m \in S : \A x \in S : x <= m

\* Ids a new row can get: the store hands out an id above every id in the
\* table (SQLite rowid: exactly the next one; a PostgreSQL sequence: any
\* later one).  limit caps the ids of the model.
NewIds(table, limit) == {i \in 1..limit : i > Max(DOMAIN table)}

Insert(table, id, row) == [i \in DOMAIN table \cup {id} |->
                             IF i = id THEN row ELSE table[i]]

Delete(table, ids) == [i \in DOMAIN table \ ids |-> table[i]]

Task(title, category_id, date) ==
  [title |-> title, date |-> date, status |-> "pending",
   category_id |-> category_id]

\* ------------------------------------------------------ the request record
NoRequest ==
  [op |-> "none", id |-> 0, name |-> "", sweep_today |-> NoDay,
   sweep_commit |-> FALSE, today |-> NoDay, loaded |-> "none",
   loaded_date |-> NoDay, outcome |-> "none", rows |-> {},
   period |-> "", cat_filter |-> "", selected_cat_name |-> "",
   total |-> 0, completed |-> 0, expired |-> 0, efficiency |-> 0]

\* ------------------------------------------------------------------ sweep
\* A faulty variant of expired_tasks: the query compares with <= instead of <.
expired_tasks_le(tsk, today) ==
  {i \in DOMAIN tsk : tsk[i].date <= today /\ tsk[i].status = "pending"}

\* A faulty variant of expired_tasks: every task that is not completed is
\* selected, an expired one again.
expired_tasks_again(tsk, today) ==
  {i \in DOMAIN tsk : tsk[i].date < today /\ tsk[i].status # "completed"}

\* A faulty variant of expired_tasks: the query asks for the wrong status.
expired_tasks_wrong_status(tsk, today) ==
  {i \in DOMAIN tsk : tsk[i].date < today /\ tsk[i].status = "expired"}

\* update_expired_tasks: the rows the query of line 54 returns.
expired_tasks(tsk, today) ==
  {i \in DOMAIN tsk : tsk[i].date < today /\ tsk[i].status = "pending"}

\* update_expired_tasks: the table after lines 55-56.
update_expired_tasks(tsk, today) ==
  [i \in DOMAIN tsk |->
     IF i \in expired_tasks(tsk, today)
       THEN [tsk[i] EXCEPT !.status = "expired"]
       ELSE tsk[i]]

\* A later clock read of the same handler: midnight may have passed.
LaterReads == {d \in {clock, clock + 1} : d <= horizon}

\* ---------------------------------------------------------------- handlers
\* read_root, lines 65-70: the categories after the lazy creation of the
\* default category (one table per id the store can hand out).
with_default(cats) ==
  IF DOMAIN cats = {}
    THEN {Insert(cats, nid, DefaultCategoryName) :
            nid \in NewIds(cats, MaxCats)}
    ELSE {cats}

\* A faulty variant of todays_tasks: the status is not asked for.
todays_tasks_any_status(tsk, today) ==
  {i \in DOMAIN tsk : tsk[i].date = today}

\* read_root, line 64: the rows the main view lists.
todays_tasks(tsk, today) ==
  {i \in DOMAIN tsk : tsk[i].date = today /\ tsk[i].status = "pending"}

\* GET / (lines 60-74).
read_root ==
  \E today \in LaterReads :
    LET swept == update_expired_tasks(tasks, clock)
        rows  == todays_tasks(swept, today)
    IN /\ tasks' = swept
       /\ categories' \in with_default(categories)
       /\ clock' = today
       /\ last' = [NoRequest EXCEPT
                     !.op = "read_root", !.sweep_today = clock,
                     !.sweep_commit = (expired_tasks(tasks, clock) # {}),
                     !.today = today, !.rows = rows, !.outcome = "html"]
       /\ viewed' = TRUE
       /\ UNCHANGED <<horizon, fk_enforced, sessions>>

\* POST /add (lines 76-80).
add_task ==
  \E title \in Titles, category_id \in CategoryIds :
    /\ IF fk_enforced /\ category_id \notin DOMAIN categories
         THEN \* the store rejects the INSERT: commit raises IntegrityError
              /\ tasks' = tasks
              /\ last' = [NoRequest EXCEPT
                            !.op = "add_task", !.id = category_id,
                            !.today = clock, !.outcome = "error"]
         ELSE \E nid \in NewIds(tasks, MaxTasks) :
              /\ tasks' = Insert(tasks, nid, Task(title, category_id, clock))
              /\ last' = [NoRequest EXCEPT
                            !.op = "add_task", !.id = category_id,
                            !.today = clock, !.outcome = "redirect"]
    /\ UNCHANGED <<viewed, sessions, clock, horizon, fk_enforced, categories>>

\* A faulty variant of completable: no date check.
completable_any(task, today) == TRUE

\* A faulty variant of completable: the comparison is reversed.
completable_reversed(task, today) == task.date <= today

\* A faulty variant of completable: > instead of >=.
completable_gt(task, today) == task.date > today

\* complete_task, line 85: the date check on the loaded task.
completable(task, today) == task.date >= today

\* GET /complete/{task_id} (lines 82-88).
complete_task ==
  \E task_id \in TaskIds :
    LET found == task_id \in DOMAIN tasks IN
    /\ tasks' = IF found /\ completable(tasks[task_id], clock)
                  THEN [tasks EXCEPT ![task_id].status = "completed"]
                  ELSE tasks
    /\ last' = [NoRequest EXCEPT
                  !.op = "complete_task", !.id = task_id, !.today = clock,
                  !.loaded = IF found THEN tasks[task_id].status ELSE "none",
                  !.loaded_date = IF found THEN tasks[task_id].date ELSE NoDay,
                  !.outcome = "redirect"]
    /\ UNCHANGED <<viewed, sessions, clock, horizon, fk_enforced, categories>>

\* A faulty variant of existing: the lookup never finds a category.
existing_never(cats, name) == FALSE

\* existing = db.query(Category).filter(Category.name == name).first()
\* (line 92), as a truth value.
existing(cats, name) == \E c \in DOMAIN cats : cats[c] = name

\* POST /category/add (lines 90-95).
add_category ==
  \E name \in Names :
    /\ IF existing(categories, name)
         THEN categories' = categories
         ELSE \E nid \in NewIds(categories, MaxCats) :
                categories' = Insert(categories, nid, name)
    /\ last' = [NoRequest EXCEPT
                  !.op = "add_category", !.name = name,
                  !.loaded = IF existing(categories, name)
                               THEN "found" ELSE "none",
                  !.outcome = "redirect"]
    /\ UNCHANGED <<viewed, sessions, clock, horizon, fk_enforced, tasks>>

\* The rows db.delete(cat) removes with cat: relationship(..., cascade=
\* "all, delete") deletes the tasks of cat.tasks.
cascade(tsk, cat_id) == {i \in DOMAIN tsk : tsk[i].category_id = cat_id}

\* GET /category/delete/{cat_id} (lines 97-103).
delete_category ==
  \E cat_id \in 1..(MaxCats + 1) :
    /\ IF cat_id \in DOMAIN categories
         THEN /\ tasks' = Delete(tasks, cascade(tasks, cat_id))
              /\ categories' = Delete(categories, {cat_id})
         ELSE UNCHANGED <<tasks, categories>>
    /\ last' = [NoRequest EXCEPT
                  !.op = "delete_category", !.id = cat_id,
                  !.loaded = IF cat_id \in DOMAIN categories
                               THEN "found" ELSE "none",
                  !.outcome = "redirect"]
    /\ UNCHANGED <<viewed, sessions, clock, horizon, fk_enforced>>

\* A faulty variant of authorized: every password opens the reset.
authorized_any(password) == TRUE

\* if password == RESET_PASSWORD (line 162).
authorized(password) == password = RESET_PASSWORD

\* POST /reset-data (lines 160-168).
reset_data ==
  \E password \in Passwords :
    /\ tasks' = IF authorized(password) THEN EmptyTable ELSE tasks
    /\ last' = [NoRequest EXCEPT
                  !.op = "reset_data", !.name = password,
                  !.outcome = IF authorized(password)
                                THEN "reset=success" ELSE "reset=error"]
    /\ UNCHANGED <<viewed, sessions, clock, horizon, fk_enforced, categories>>

\* int(cat_filter), line 131: the strings int() accepts, and their values.
Numeric == {"1", "02"}
int(s) == CASE s = "1" -> 1 [] s = "02" -> 2

\* A faulty variant of base_query: no status filter.
base_query_any(tsk) == DOMAIN tsk

\* stats, line 117: the rows with status completed or expired.
base_query(tsk) ==
  {i \in DOMAIN tsk : tsk[i].status \in {"completed", "expired"}}

\* A faulty variant of period_filter: > instead of >=.
period_filter_gt(tsk, period, today) ==
  IF period = "week"
    THEN {i \in base_query(tsk) : tsk[i].date > today - WeekDays}
    ELSE IF period = "month"
      THEN {i \in base_query(tsk) : tsk[i].date > today - MonthDays}
      ELSE base_query(tsk)

\* stats, lines 117-126: the rows of base_query after the period filter.
period_filter(tsk, period, today) ==
  IF period = "week"
    THEN {i \in base_query(tsk) : tsk[i].date >= today - WeekDays}
    ELSE IF period = "month"
      THEN {i \in base_query(tsk) : tsk[i].date >= today - MonthDays}
      ELSE base_query(tsk)

\* A faulty variant of category_filter: the category is not applied.
category_filter_off(tsk, rows, cat_filter) == rows

\* stats, lines 130-131: the category filter.
category_filter(tsk, rows, cat_filter) ==
  IF cat_filter # "all"
    THEN {i \in rows : tsk[i].category_id = int(cat_filter)}
    ELSE rows

\* stats, lines 129-133.
selected_cat_name(cats, cat_filter) ==
  IF cat_filter # "all" /\ int(cat_filter) \in DOMAIN cats
    THEN cats[int(cat_filter)]
    ELSE AllCategoriesLabel

\* stats, line 143: int((completed / total) * 100).  The float quotient,
\* times 100, truncated: for total < 50 this is the integer quotient of
\* 100 * completed by total (the first total where the float product
\* falls below it is 50, at 29/50).
efficiency(completed, total) ==
  IF total > 0 THEN (completed * 100) \div total ELSE 0

\* stats, lines 136-158: the response computed from the filtered rows.
stats_response(req, tsk, cats, rows) ==
  LET completed == Cardinality({i \in rows : tsk[i].status = "completed"})
      expired   == Cardinality({i \in rows : tsk[i].status = "expired"})
      total     == Cardinality(rows)
  IN [req EXCEPT
        !.outcome = "html", !.rows = rows, !.total = total,
        !.completed = completed, !.expired = expired,
        !.efficiency = efficiency(completed, total),
        !.selected_cat_name = selected_cat_name(cats, req.cat_filter)]

\* GET /stats (lines 107-158), its query parameters drawn from the two sets.
stats_request(periods, cat_filters) ==
  \E swept \in {update_expired_tasks(tasks, clock)} :
    /\ tasks' = swept
    /\ \E period \in periods, cat_filter \in cat_filters, today \in LaterReads :
         LET req == [NoRequest EXCEPT
                       !.op = "stats", !.sweep_today = clock,
                       !.sweep_commit = (expired_tasks(tasks, clock) # {}),
                       !.today = today,
                       !.period = period, !.cat_filter = cat_filter]
         IN /\ clock' = today
            /\ IF cat_filter # "all" /\ cat_filter \notin Numeric
                 THEN \* int(cat_filter) raises ValueError, after the sweep
                      last' = [req EXCEPT !.outcome = "error"]
                 ELSE \E rows \in {category_filter(swept,
                         period_filter(swept, period, today), cat_filter)} :
                      last' = stats_response(req, swept, categories, rows)
    /\ UNCHANGED <<viewed, sessions, horizon, fk_enforced, categories>>

stats == stats_request(Periods, CatFilters)

\* Midnight passes between two requests.
Tick ==
  /\ clock < horizon
  /\ clock' = clock + 1
  /\ UNCHANGED <<viewed, sessions, horizon, fk_enforced, categories, tasks,
               last>>

\* ---------------------------------------------------------- specification
\* After Base.metadata.create_all on a new database: both tables empty.
Init ==
  /\ clock = 0
  /\ horizon = MaxDay
  /\ fk_enforced \in BOOLEAN
  /\ categories = EmptyTable
  /\ tasks = EmptyTable
  /\ last = NoRequest
  /\ viewed = FALSE
  /\ sessions = NoSessions

Next ==
  \/ read_root
  \/ add_task
  \/ complete_task
  \/ add_category
  \/ delete_category
  \/ stats
  \/ reset_data
  \/ Tick

Spec == Init /\ [][Next]_vars

\* GET /stats asked for every period and category, or with a category
\* filter int() rejects (after the sweep has run): the sweep of line 109
\* does not read the filters.
unfiltered_stats == stats_request({"all"}, {"all", "x"})

NextFair ==
  \/ read_root
  \/ add_task
  \/ complete_task
  \/ add_category
  \/ delete_category
  \/ unfiltered_stats
  \/ reset_data
  \/ Tick

\* The runs in which read requests keep arriving: the sweep has no
\* scheduler of its own, it runs when a main-view or statistics request is
\* served (lines 61 and 109).
SpecFair ==
  Init /\ [][NextFair]_vars /\ WF_vars(read_root \/ unfiltered_stats)

\* --------------------------------------------- one request on its own
\* Every table of categories with distinct names (name is unique, line 30).
CategoryTables ==
  UNION {{c \in [ids -> Names] :
            \A i \in ids, j \in ids : c[i] = c[j] => i = j}
         : ids \in SUBSET CategoryIds}

\* Stores the program can be in on day 1: n rows with ids 1..n dated day 0
\* or day 1; add_task dates a row with the day it is created on, so dates
\* do not decrease with the id; a row dated today is not expired.
RequestStores ==
  UNION {
    {t \in [1..n -> [title : Titles, date : {0, 1}, status : Statuses,
                     category_id : CategoryIds]] :
       /\ \A i \in 1..n : t[i].status = "expired" => t[i].date < 1
       /\ \A i \in 1..n, j \in 1..n : i < j => t[i].date <= t[j].date}
    : n \in 0..MaxTasks}

InitRequest ==
  /\ clock = 1
  /\ horizon = 2
  /\ fk_enforced \in BOOLEAN
  /\ categories \in CategoryTables
  /\ tasks \in RequestStores
  /\ fk_enforced =>
       \A i \in DOMAIN tasks : tasks[i].category_id \in DOMAIN categories
  /\ last = NoRequest
  /\ viewed = FALSE
  /\ sessions = NoSessions

\* One request on each of these stores, at any time of the run.
NextRequest == last.op = "none" /\ Next

SpecRequest == InitRequest /\ [][NextRequest]_vars

\* ------------------------------------------- the statistics view on its own
\* The day SpecStats starts on: late enough for a task to be older than
\* the month window.
StatsDay == MonthDays + 1

\* The ages (in days, on StatsDay) of the task rows SpecStats starts from:
\* today, and both sides of the week and month windows.
StatsAges == {0, WeekDays, WeekDays + 1, MonthDays, MonthDays + 1}

\* Stores the program can be in on StatsDay: n rows with ids 1..n; add_task
\* dates a row with the day it is created on, so dates do not decrease with
\* the id; a row dated today is not expired.
StatsStores ==
  UNION {
    {t \in [1..n -> [title : Titles,
                     date : {StatsDay - a : a \in StatsAges},
                     status : Statuses,
                     category_id : {1, 2}]] :
       /\ \A i \in 1..n : t[i].status = "expired" => t[i].date < StatsDay
       /\ \A i \in 1..n, j \in 1..n : i < j => t[i].date <= t[j].date}
    : n \in 0..StatsMaxTasks}

InitStats ==
  /\ clock = StatsDay
  /\ horizon = StatsDay + 1
  /\ fk_enforced = FALSE
  /\ categories \in {Insert(EmptyTable, 1, DefaultCategoryName),
                     Insert(Insert(EmptyTable, 1, DefaultCategoryName),
                            2, "work")}
  /\ tasks \in StatsStores
  /\ last = NoRequest
  /\ viewed = FALSE
  /\ sessions = NoSessions

\* One statistics request on each of these stores.
NextStats == last.op = "none" /\ stats

SpecStats == InitStats /\ [][NextStats]_vars

\* ------------------------------------------------ requests that interleave
\* Each request has its own database session (get_db, lines 47-50) and no
\* handler takes a lock, so the statements of two requests served by
\* different workers interleave. A session holds the rows it has loaded;
\* its changes reach the store when it commits, as an UPDATE by primary
\* key of the attributes that differ from the loaded values. No step of
\* this specification deletes a row.
Session(op, pc, id) ==
  [op |-> op, pc |-> pc, id |-> id, today |-> NoDay, loaded |-> "none",
   loaded_date |-> NoDay, rows |-> {}, outcome |-> "none"]

\* task = db.query(Task).filter(Task.id == task_id).first() (line 84).
complete_load(r) ==
  /\ sessions[r].op = "complete_task"
  /\ sessions[r].pc = "load"
  /\ LET id == sessions[r].id
     IN sessions' = [sessions EXCEPT
          ![r].pc = "check",
          ![r].loaded = IF id \in DOMAIN tasks
                          THEN tasks[id].status ELSE "none",
          ![r].loaded_date = IF id \in DOMAIN tasks
                               THEN tasks[id].date ELSE NoDay]
  /\ UNCHANGED <<clock, horizon, fk_enforced, categories, tasks, last,
                 viewed>>

\* if task and task.date >= datetime.date.today(): task.status =
\* "completed" (lines 85-86), on the session's copy of the row; otherwise
\* the redirect of line 88.
complete_check(r) ==
  /\ sessions[r].op = "complete_task"
  /\ sessions[r].pc = "check"
  /\ IF /\ sessions[r].loaded # "none"
        /\ completable([date |-> sessions[r].loaded_date], clock)
       THEN sessions' = [sessions EXCEPT
              ![r].pc = "commit", ![r].today = clock]
       ELSE sessions' = [sessions EXCEPT
              ![r].pc = "done", ![r].today = clock,
              ![r].outcome = "redirect"]
  /\ UNCHANGED <<clock, horizon, fk_enforced, categories, tasks, last,
                 viewed>>

\* A faulty variant of complete_commit: the commit fails when the row no
\* longer has the status the session loaded.
complete_commit_versioned(r) ==
  /\ sessions[r].op = "complete_task"
  /\ sessions[r].pc = "commit"
  /\ LET id == sessions[r].id
     IN IF tasks[id].status = sessions[r].loaded
          THEN /\ tasks' = [tasks EXCEPT ![id].status = "completed"]
               /\ sessions' = [sessions EXCEPT
                    ![r].pc = "done", ![r].outcome = "redirect"]
          ELSE /\ tasks' = tasks
               /\ sessions' = [sessions EXCEPT
                    ![r].pc = "done", ![r].outcome = "error"]
  /\ UNCHANGED <<clock, horizon, fk_enforced, categories, last, viewed>>

\* db.commit() (line 87) and the redirect of line 88: the row's status is
\* written when it differs from the loaded one, with no check of what the
\* store holds by then.
complete_commit(r) ==
  /\ sessions[r].op = "complete_task"
  /\ sessions[r].pc = "commit"
  /\ LET id == sessions[r].id
     IN tasks' = IF sessions[r].loaded # "completed"
                   THEN [tasks EXCEPT ![id].status = "completed"]
                   ELSE tasks
  /\ sessions' = [sessions EXCEPT
       ![r].pc = "done", ![r].outcome = "redirect"]
  /\ UNCHANGED <<clock, horizon, fk_enforced, categories, last, viewed>>

\* today = datetime.date.today(); expired_tasks = db.query(Task).filter(
\* ...).all() (lines 53-54).
sweep_query(r) ==
  /\ sessions[r].op = "sweep"
  /\ sessions[r].pc = "query"
  /\ sessions' = [sessions EXCEPT
       ![r].pc = "update", ![r].today = clock,
       ![r].rows = expired_tasks(tasks, clock)]
  /\ UNCHANGED <<clock, horizon, fk_enforced, categories, tasks, last,
                 viewed>>

\* for task in expired_tasks: task.status = "expired" (line 55), on the
\* session's copies; if expired_tasks: (line 56) decides on the commit.
sweep_update(r) ==
  /\ sessions[r].op = "sweep"
  /\ sessions[r].pc = "update"
  /\ sessions' = [sessions EXCEPT
       ![r].pc = IF sessions[r].rows # {} THEN "commit" ELSE "done"]
  /\ UNCHANGED <<clock, horizon, fk_enforced, categories, tasks, last,
                 viewed>>

\* db.commit() (line 56): the status of every queried row is written.
sweep_commit(r) ==
  /\ sessions[r].op = "sweep"
  /\ sessions[r].pc = "commit"
  /\ tasks' = [i \in DOMAIN tasks |->
                IF i \in sessions[r].rows
                  THEN [tasks[i] EXCEPT !.status = "expired"]
                  ELSE tasks[i]]
  /\ sessions' = [sessions EXCEPT ![r].pc = "done"]
  /\ UNCHANGED <<clock, horizon, fk_enforced, categories, last, viewed>>

\* Two complete-task requests, or a complete-task request and the sweep of
\* a read request, arrive together on a store a run can have built.
InitConc ==
  /\ clock = 1
  /\ horizon = 2
  /\ fk_enforced = FALSE
  /\ categories \in {c \in CategoryTables : DOMAIN c = CategoryIds}
  /\ tasks \in RequestStores
  /\ last = NoRequest
  /\ viewed = FALSE
  /\ \E a \in TaskIds, b \in TaskIds :
       sessions \in
         {[r \in {"c1", "c2"} |->
             Session("complete_task", "load", IF r = "c1" THEN a ELSE b)],
          [r \in {"c1", "s"} |->
             IF r = "c1" THEN Session("complete_task", "load", a)
                         ELSE Session("sweep", "query", 0)]}

NextConc ==
  \/ \E r \in DOMAIN sessions : complete_load(r)
  \/ \E r \in DOMAIN sessions : complete_check(r)
  \/ \E r \in DOMAIN sessions : complete_commit(r)
  \/ \E r \in DOMAIN sessions : sweep_query(r)
  \/ \E r \in DOMAIN sessions : sweep_update(r)
  \/ \E r \in DOMAIN sessions : sweep_commit(r)
  \/ Tick

SpecConc == InitConc /\ [][NextConc]_vars

\* ------------------------------------------------------------------ claims
Reads == {"read_root", "stats"}

\* A step of a main-view or statistics request (Tick leaves last as it is,
\* with last.today the day before).
ReadStep ==
  last'.op \in Reads /\ last'.sweep_today = clock /\ last'.today = clock'

\* A step of a complete-task request (Tick changes the clock).
CompleteStep == last'.op = "complete_task" /\ clock' = clock

\* C1: a sweep at date D (the sweep of a main-view or statistics request)
\* sets status to expired for exactly the tasks that were pending with
\* date < D and leaves every other task, and every category, unchanged
\* (the main view then creates the default category when there is none).
C1_SweepExact ==
  [][ReadStep =>
       LET D == last'.sweep_today IN
       /\ DOMAIN tasks' = DOMAIN tasks
       /\ \A i \in DOMAIN tasks :
            IF tasks[i].status = "pending" /\ tasks[i].date < D
              THEN /\ tasks'[i].status = "expired"
                   /\ tasks'[i].date = tasks[i].date
                   /\ tasks'[i].title = tasks[i].title
                   /\ tasks'[i].category_id = tasks[i].category_id
              ELSE tasks'[i] = tasks[i]
       /\ (DOMAIN categories # {} \/ last'.op = "stats")
            => categories' = categories]_vars

\* C1 witness: a sweep that expired one task and left a pending one alone.
C1_Witness ==
  /\ last.op \in Reads
  /\ last.sweep_commit
  /\ \E i, j \in DOMAIN tasks :
       /\ tasks[i].status = "expired" /\ tasks[i].date < last.sweep_today
       /\ tasks[j].status = "pending" /\ tasks[j].date = last.sweep_today

\* C2: completed and expired are terminal: no step changes the status of a
\* task that is completed or expired, while the task exists.
C2_Terminal ==
  [][\A i \in DOMAIN tasks \cap DOMAIN tasks' :
       tasks[i].status \in {"completed", "expired"}
         => tasks'[i].status = tasks[i].status]_vars

\* C2 witness: complete task was requested for an expired task, which is
\* still expired.
C2_Witness ==
  /\ last.op = "complete_task"
  /\ last.loaded = "expired"
  /\ last.id \in DOMAIN tasks
  /\ tasks[last.id].status = "expired"

\* C3: complete task on an existing task dated before the current date
\* leaves the whole store unchanged, whatever the task's status.
C3_PastDayNoop ==
  [][(CompleteStep /\ last'.id \in DOMAIN tasks
        /\ tasks[last'.id].date < last'.today)
       => UNCHANGED <<tasks, categories>>]_vars

\* C3 witness: complete task was requested for a task that was pending
\* (not yet swept) and dated before the current date.
C3_Witness ==
  /\ last.op = "complete_task"
  /\ last.loaded = "pending"
  /\ last.loaded_date < last.today
  /\ last.id \in DOMAIN tasks
  /\ tasks[last.id].status = "pending"

\* C4: complete task on a pending task dated the current date or later sets
\* its status to completed and changes nothing else; complete task on a
\* task that is already completed leaves the store unchanged.
C4_CompleteOnce ==
  [][CompleteStep =>
       LET id == last'.id IN
       /\ (id \in DOMAIN tasks /\ tasks[id].status = "pending"
             /\ tasks[id].date >= last'.today)
            => /\ DOMAIN tasks' = DOMAIN tasks
               /\ tasks'[id].status = "completed"
               /\ tasks'[id].date = tasks[id].date
               /\ tasks'[id].title = tasks[id].title
               /\ tasks'[id].category_id = tasks[id].category_id
               /\ \A j \in DOMAIN tasks \ {id} : tasks'[j] = tasks[j]
               /\ categories' = categories
       /\ (id \in DOMAIN tasks /\ tasks[id].status = "completed")
            => UNCHANGED <<tasks, categories>>]_vars

\* C4 witness: a second complete task on a task of the current date that
\* was already completed, another task being in the store.
C4_Witness ==
  /\ last.op = "complete_task"
  /\ last.loaded = "completed"
  /\ last.loaded_date >= last.today
  /\ last.id \in DOMAIN tasks
  /\ DOMAIN tasks # {last.id}

\* The claims' own reading of the two statistics filters.
InPeriod(date, period, D) ==
  /\ period = "week" => date >= D - 7
  /\ period = "month" => date >= D - 30

InCategory(category_id, cat_filter) ==
  \/ cat_filter = "all"
  \/ cat_filter = "1" /\ category_id = 1
  \/ cat_filter = "02" /\ category_id = 2

Eligible(i) == tasks[i].status \in {"completed", "expired"}

StatsAnswered == last.op = "stats" /\ last.outcome = "html"

\* C5: a main-view or statistics response is computed from a state with no
\* task that is pending and dated before the request's current date, and a
\* statistics response at date D counts every task dated before D that
\* passes the period and category filters.
C5_SweptBeforeRead ==
  last.op \in Reads =>
    /\ \A i \in DOMAIN tasks :
         ~(tasks[i].status = "pending" /\ tasks[i].date < last.today)
    /\ StatsAnswered =>
         \A i \in DOMAIN tasks :
           (/\ tasks[i].date < last.today
            /\ InPeriod(tasks[i].date, last.period, last.today)
            /\ InCategory(tasks[i].category_id, last.cat_filter))
             => i \in last.rows

\* C6: within one main-view or statistics request the date used by the
\* sweep and the date used by the rest of the request are the same.
C6_TodayOnce ==
  last.op \in Reads => last.sweep_today = last.today

\* C7: the statistics never count a pending task: every counted task is
\* completed or expired, and total = completed + expired.
C7_NoPendingCounted ==
  StatsAnswered =>
    /\ \A i \in last.rows : i \in DOMAIN tasks /\ Eligible(i)
    /\ last.total = Cardinality(last.rows)
    /\ last.completed =
         Cardinality({i \in last.rows : tasks[i].status = "completed"})
    /\ last.expired =
         Cardinality({i \in last.rows : tasks[i].status = "expired"})
    /\ last.total = last.completed + last.expired

\* C7 witness: statistics over all periods and categories that counted a
\* task and left a pending task of the store out.
C7_Witness ==
  /\ StatsAnswered
  /\ last.period = "all" /\ last.cat_filter = "all"
  /\ last.total >= 2
  /\ \E i \in DOMAIN tasks : tasks[i].status = "pending" /\ i \notin last.rows

\* completed / total * 100 rounded to the nearest integer (no quotient is
\* halfway between two integers for a total below 8).
Rounded(completed, total) == (200 * completed + total) \div (2 * total)

\* C8: efficiency = round(completed / total * 100) when total > 0, else 0;
\* 67 for completed = 2 and total = 3; all four numbers 0 over an empty
\* task set.
C8_EfficiencyRounded ==
  StatsAnswered =>
    /\ last.efficiency = IF last.total > 0
                           THEN Rounded(last.completed, last.total) ELSE 0
    /\ (last.completed = 2 /\ last.total = 3) => last.efficiency = 67
    /\ DOMAIN tasks = {} =>
         /\ last.total = 0 /\ last.completed = 0
         /\ last.expired = 0 /\ last.efficiency = 0

\* The statistics-eligible tasks the period filter of the claim selects.
Selected(period, D) ==
  {i \in DOMAIN tasks : Eligible(i) /\ InPeriod(tasks[i].date, period, D)}

\* C9: at date D the period filter selects exactly the eligible tasks with
\* date >= D - 7 for "week", with date >= D - 30 for "month", and all
\* eligible tasks for "all" and for an unrecognized period, which is no
\* error; a task dated before D - 7 is never counted for "week".
C9_PeriodFilter ==
  last.op = "stats" =>
    /\ last.cat_filter \in {"all", "1", "02"} => last.outcome = "html"
    /\ StatsAnswered =>
         /\ last.rows \subseteq Selected(last.period, last.today)
         /\ last.cat_filter = "all" =>
              last.rows = Selected(last.period, last.today)
         /\ last.period = "week" =>
              \A i \in last.rows : ~(tasks[i].date < last.today - 7)

\* C9 witness: statistics of the week that counted a task exactly seven
\* days old and left an older eligible task out.
C9_Witness ==
  /\ StatsAnswered
  /\ last.period = "week" /\ last.cat_filter = "all"
  /\ \E i \in last.rows : tasks[i].date = last.today - 7
  /\ \E j \in DOMAIN tasks :
       Eligible(j) /\ tasks[j].date = last.today - 8 /\ j \notin last.rows

\* C10: deleting a category removes every task owned by it, and no task
\* row has a category_id that resolves to no category.
C10_NoOrphans ==
  /\ (last.op = "delete_category" /\ last.loaded = "found") =>
       \A i \in DOMAIN tasks : tasks[i].category_id # last.id
  /\ \A i \in DOMAIN tasks : tasks[i].category_id \in DOMAIN categories

\* C11: a reset request with the correct secret deletes every task row,
\* leaves the categories as they were and answers success; with any other
\* secret it leaves tasks and categories as they were and answers failure.
ResetStep == last'.op = "reset_data" /\ clock' = clock

C11_ResetContract ==
  [][ResetStep =>
       IF last'.name = RESET_PASSWORD
         THEN /\ DOMAIN tasks' = {}
              /\ categories' = categories
              /\ last'.outcome = "reset=success"
         ELSE /\ tasks' = tasks
              /\ categories' = categories
              /\ last'.outcome = "reset=error"]_vars

C11_Witness ==
  /\ last.op = "reset_data"
  /\ last.name = RESET_PASSWORD
  /\ last.outcome = "reset=success"
  /\ DOMAIN tasks = {}
  /\ DOMAIN categories # {}

\* C12: no two categories share a name in any reachable state, whatever
\* sequence of category creations, deletions and main views led to it, and
\* a create-category request whose name is already taken leaves the store
\* as it was.
UniqueNames(cats) ==
  \A c, d \in DOMAIN cats : cats[c] = cats[d] => c = d

AddCategoryStep == last'.op = "add_category" /\ clock' = clock

C12_UniqueNames ==
  /\ [](UniqueNames(categories))
  /\ [][AddCategoryStep
          /\ (\E c \in DOMAIN categories : categories[c] = last'.name)
          => categories' = categories /\ tasks' = tasks]_vars

C12_Witness ==
  /\ last.op = "add_category"
  /\ last.loaded = "found"
  /\ Cardinality(DOMAIN categories) = 2

\* C13: in every state reached after the first main-view request, whatever
\* category creations, category deletions, task creations and resets
\* follow it, at least one category exists.
C13_CategoryExists == viewed => DOMAIN categories # {}

\* C14: when two complete-task requests for the same task, which is
\* pending and dated the current date or later, interleave their load,
\* check and commit steps in any order, neither request fails and the
\* store ends as one completion leaves it: the task completed, nothing
\* else changed.
Completes == {r \in DOMAIN sessions : sessions[r].op = "complete_task"}

TwoCompletes ==
  /\ DOMAIN sessions = {"c1", "c2"}
  /\ sessions["c1"].id = sessions["c2"].id

C14_DoubleComplete ==
  /\ [](/\ TwoCompletes
        /\ \A r \in Completes : sessions[r].pc = "done"
        /\ \E r \in Completes : sessions[r].loaded = "pending"
        /\ \A r \in Completes :
             sessions[r].today <= sessions[r].loaded_date
        => /\ \A r \in Completes : sessions[r].outcome = "redirect"
           /\ tasks[sessions["c1"].id].status = "completed")
  /\ [][TwoCompletes =>
          \/ tasks' = tasks
          \/ /\ tasks[sessions["c1"].id].status = "pending"
             /\ tasks' = [tasks EXCEPT
                           ![sessions["c1"].id].status = "completed"]]_vars

C14_Witness ==
  /\ TwoCompletes
  /\ \A r \in Completes :
       /\ sessions[r].pc = "done"
       /\ sessions[r].loaded = "pending"
       /\ sessions[r].today <= sessions[r].loaded_date
  /\ tasks[sessions["c1"].id].status = "completed"

\* C15: every create-task, complete-task, create-category, delete-category
\* and reset request, on any input and in any reachable state, is answered
\* with a redirect and never with an error.
Mutations ==
  {"add_task", "complete_task", "add_category", "delete_category",
   "reset_data"}

Redirects == {"redirect", "reset=success", "reset=error"}

C15_MutationsRedirect == last.op \in Mutations => last.outcome \in Redirects

\* C16: the category filter "all" restricts nothing and shows the generic
\* label; a numeric id restricts the counted tasks to exactly those with
\* that category_id and shows that category's name; a numeric id of no
\* category shows the generic label and is no error.
FilterId(cat_filter) == IF cat_filter = "1" THEN 1 ELSE 2

C16_CategoryFilter ==
  (last.op = "stats" /\ last.cat_filter \in {"all", "1", "02"}) =>
    /\ last.outcome = "html"
    /\ last.rows =
         {i \in Selected(last.period, last.today) :
            last.cat_filter # "all" =>
              tasks[i].category_id = FilterId(last.cat_filter)}
    /\ last.selected_cat_name =
         IF /\ last.cat_filter # "all"
            /\ FilterId(last.cat_filter) \in DOMAIN categories
           THEN categories[FilterId(last.cat_filter)]
           ELSE AllCategoriesLabel

\* C16 witness: statistics filtered by the id of a category that does not
\* exist, counting a task that carries this id and leaving out an eligible
\* task of another category.
C16_Witness ==
  /\ StatsAnswered
  /\ last.cat_filter = "02" /\ 2 \notin DOMAIN categories
  /\ last.selected_cat_name = AllCategoriesLabel
  /\ \E i \in last.rows : tasks[i].category_id = 2
  /\ \E j \in Selected(last.period, last.today) : j \notin last.rows

\* C17: the sweep is idempotent: when two sweeps run one after the other
\* at the same date D, the second leaves the store as the first left it
\* and writes nothing.
C17_SweepIdempotent ==
  [][(last.op \in Reads /\ ReadStep /\ last.sweep_today = clock)
       => tasks' = tasks /\ ~last'.sweep_commit]_vars

\* C17 witness: a sweep that found nothing to write on a store holding a
\* task an earlier sweep expired.
C17_Witness ==
  /\ last.op \in Reads
  /\ ~last.sweep_commit
  /\ \E i \in DOMAIN tasks :
       tasks[i].status = "expired" /\ tasks[i].date < last.sweep_today

\* C18: while read requests keep arriving, every task that is pending and
\* dated before the current date is eventually expired or deleted, and it
\* never becomes completed.
Stale(i) ==
  i \in DOMAIN tasks /\ tasks[i].status = "pending" /\ tasks[i].date < clock

C18_StaleExpires ==
  /\ \A i \in TaskIds :
       Stale(i) ~> (i \notin DOMAIN tasks \/ tasks[i].status = "expired")
  /\ [][\A i \in TaskIds :
          (Stale(i) /\ i \in DOMAIN tasks')
            => tasks'[i].status # "completed"]_vars

\* C18 witness: a main-view request whose sweep has just expired a task.
C18_Witness ==
  /\ last.op = "read_root"
  /\ last.sweep_commit
  /\ \E i \in DOMAIN tasks :
       tasks[i].status = "expired" /\ tasks[i].date < last.sweep_today

\* C19: whatever the order in which the query, update and commit steps of
\* a sweep and the load, check and commit steps of a complete-task request
\* for the same task are taken, the date changing between them or not, the
\* stored status of a task never goes from completed to expired nor from
\* expired to completed.
C19_TerminalUnderRace ==
  [][\A i \in DOMAIN tasks :
       /\ ~(tasks[i].status = "completed" /\ tasks'[i].status = "expired")
       /\ ~(tasks[i].status = "expired" /\ tasks'[i].status = "completed")
    ]_vars

\* C20: the clock never going back, no task of a reachable state is dated
\* after the current date; a complete-task request changes a status only
\* of a task dated exactly the request's current date; and the main view
\* lists exactly the tasks that are pending and dated its current date.
C20_OnlyToday ==
  /\ \A i \in DOMAIN tasks : tasks[i].date <= clock
  /\ (/\ last.op = "complete_task"
      /\ last.id \in DOMAIN tasks
      /\ tasks[last.id].status # last.loaded)
       => last.loaded_date = last.today
  /\ last.op = "read_root" =>
       last.rows = {i \in DOMAIN tasks :
                      tasks[i].status = "pending"
                      /\ tasks[i].date = last.today}

\* C20 witness: a main view that lists a task of its day while the store
\* also holds a task of an earlier day and one that is no longer pending.
C20_Witness ==
  /\ last.op = "read_root"
  /\ last.rows # {}
  /\ \E i \in DOMAIN tasks :
       tasks[i].date < last.today /\ tasks[i].status # "pending"

====
